---- MODULE Spec2Model ----
(***************************************************************************)
(* Model of stickers-l2t-bot (functions/src/utils.ts, functions/src/       *)
(* index.ts).                                                              *)
(*                                                                         *)
(* Part 1: concurrentDo, the tick-driven bounded-concurrency batch         *)
(*         scheduler of utils.ts (specifications Spec and LiveSpec).       *)
(* Part 2: the bot.on("document") handler of index.ts with its per-user    *)
(*         processingChat flag (specification GateSpec).                   *)
(* Part 3: the retrying wrappers downloadSticker, uploadSticker and        *)
(*         addSticker (specification RetrySpec).                           *)
(* Part 4: one run of the handler with its stickers, the image-id cache    *)
(*         and its three batches (specification PipeSpec).                 *)
(* Part 5: concurrent runs and the image-id cache (specification           *)
(*         CacheSpec).                                                     *)
(* Part 6: a run with the batch of its addStickers() and the runs that     *)
(*         arrive after it (specification BatchSpec).                      *)
(*                                                                         *)
(* JavaScript runs every callback to completion, so each action below is   *)
(* one synchronous segment of code between two suspension points.          *)
(***************************************************************************)
EXTENDS Integers, Sequences, FiniteSets, TLC

\* ---------------------------------------------------------------- bounds
MaxTasks == 3
MaxLimit == 2
MaxRuns == 3
MaxUsers == 2
MaxFaults == 6
MaxItems == 3
MaxArtifacts == 2
MaxCacheRuns == 2
MaxFollowers == 1

VARIABLES
    \* ---- concurrentDo (utils.ts 77-134)
    called,           \* the executor of the returned promise has run
    nTasks,           \* tasks.length
    limit,            \* the limit argument (pLimit)
    timeout,          \* the timeout argument: 0 = undefined/0, 1 = a positive duration
    fails,            \* the tasks whose promise rejects (behaviour of the input tasks)
    taskToBeExcuted,  \* the copied task list; pop() takes its last element
    queue,            \* queue[i]: the task whose promise occupies slot i, 0 = undefined
    status,           \* per task: "unstarted", "running", "done", "failed"
    startedLog,       \* the tasks in the order their closures were invoked
    timer,            \* the setInterval handle: "unset", "active", "cleared"
    timeoutTimer,     \* the setTimeout handle: "unset", "active", "fired", "cleared"
    promise,          \* the returned promise: "pending", "resolved", "rejectedErr", "rejectedTimeout"
    \* ---- bot.on("document") (index.ts 25-242)
    processingChat,   \* the module-level Record<number, boolean>
    pc,               \* per handler invocation: the await it is suspended at
    user,             \* per handler invocation: ctx.from.id (0 before the event arrives)
    admitted,         \* per handler invocation: it took the else branch of line 35
    releases,         \* per handler invocation: how often it wrote processingChat[userId] = false
    \* ---- downloadSticker / uploadSticker / addSticker (index.ts 98-117, 140-163, 196-225)
    wrapper,          \* which retrying wrapper is running
    faults,           \* how many leading invocations of the remote operation reject
    rpc,              \* "notCalled", "awaitOp", "awaitDelay", "returned", "threw"
    times,            \* the local counter times
    error,            \* the local error: "undefined" or "raw" (the last fault caught)
    invocations,      \* invocations of the remote operation so far
    delays,           \* calls of delay(1000) so far
    thrown,           \* what the wrapper threw: "none", "BotError" or "raw"
    \* ---- one run of bot.on("document") with its data (index.ts 29-242)
    ppc,              \* the await the run is suspended at
    docKind,          \* the document: "valid", "invalid" (isLineStickerSet false), "unparsable"
    nItems,           \* stickerSet.stickers.length
    store,            \* the Firestore collection "images": item id -> fileId, 0 = no document
    existingImageIds, \* the result of retrieveImageIds(), 0 = no entry
    toBeUploaded,     \* stickersToBeUploaded, as item ids in order
    image,            \* per item sticker.image: "none", "raw", "png"
    fileId,           \* per item sticker.fileId, 0 = undefined
    batchKind,        \* whose tasks the concurrentDo variables hold: "none", "download", "upload", "add"
    dlStarted,        \* items whose download task was invoked
    upStarted,        \* items whose upload task was invoked
    addStarted,       \* items whose append task was invoked
    calls,            \* per collaborator call issued once per run: how often it was issued
    acks,             \* the collaborator calls that resolved
    written,          \* the content of the batch of addImageIds: item id -> fileId, 0 = not set
    trace,            \* the stages completed, in order
    caught,           \* the error the catch block received: "none", "BadInput", "Timeout", "StageError", "raw"
    failedAt,         \* the await that rejected, "none" if none did
    \* ---- concurrent runs seen through their accesses to the image-id cache
    cpc,              \* per run: "idle", "uploading", "committed", "failed"
    cItems,           \* per run: stickerSet.stickers.length
    cToBeUploaded,    \* per run: stickersToBeUploaded
    cFileId           \* per run and item: sticker.fileId, 0 = undefined

bvars == <<called, nTasks, limit, timeout, fails, taskToBeExcuted, queue, status,
           startedLog, timer, timeoutTimer, promise>>
gvars == <<processingChat, pc, user, admitted, releases>>
rvars == <<wrapper, faults, rpc, times, error, invocations, delays, thrown>>
pvars == <<ppc, docKind, nItems, store, existingImageIds, toBeUploaded, image, fileId,
           batchKind, dlStarted, upStarted, addStarted, calls, acks, written, trace,
           caught, failedAt>>
vars == <<called, nTasks, limit, timeout, fails, taskToBeExcuted, queue, status,
          startedLog, timer, timeoutTimer, promise,
          processingChat, pc, user, admitted, releases,
          wrapper, faults, rpc, times, error, invocations, delays, thrown,
          ppc, docKind, nItems, store, existingImageIds, toBeUploaded, image, fileId,
          batchKind, dlStarted, upStarted, addStarted, calls, acks, written, trace,
          caught, failedAt,
          cpc, cItems, cToBeUploaded, cFileId>>

\* What the actions of one part leave alone.
cvars == <<cpc, cItems, cToBeUploaded, cFileId>>
pvarsNoStore == <<ppc, docKind, nItems, existingImageIds, toBeUploaded, image, fileId,
                  batchKind, dlStarted, upStarted, addStarted, calls, acks, written, trace,
                  caught, failedAt>>
nonBatchVars == <<gvars, rvars, pvars, cvars>>
nonGateVars == <<bvars, rvars, pvars, cvars>>
nonRetryVars == <<bvars, gvars, pvars, cvars>>
nonPipeVars == <<bvars, gvars, rvars, cvars>>
nonPipeBatchVars == <<gvars, rvars, cvars>>
nonCacheVars == <<bvars, gvars, rvars, pvarsNoStore>>

Tasks == 1..nTasks
Slots == 1..limit
Runs == 1..MaxRuns
Users == 1..MaxUsers

\* ======================================================================
\* Part 1: concurrentDo
\* ======================================================================

\* const pLimit = limit ?? tasks.length; every call site passes a number.
pLimit == limit

\* A promise settles once: resolve/reject after the first one are no-ops.
settleLast(new) == new

settle(new) == IF promise = "pending" THEN new ELSE promise

\* isQueueEmpty(): no slot below pLimit holds a promise.
isQueueEmpty(q) == \A i \in 1..pLimit : q[i] = 0

\* The test of line 120 that decides resolve().
allDoneIgnoringQueue(todo, q) == Len(todo) = 0

allDone(todo, q) == Len(todo) = 0 /\ isQueueEmpty(q)

\* queue[i] = undefined (line 119).
freeSlotForgotten(q, i) == q

freeSlotTakesNext(q, i) ==
    [q EXCEPT ![i] = IF Len(taskToBeExcuted) > 0
                     THEN taskToBeExcuted[Len(taskToBeExcuted)] ELSE 0]

freeSlot(q, i) == [q EXCEPT ![i] = 0]

\* cleanup(): clearInterval(timer); if (timeoutTimer) clearTimeout(timeoutTimer).
\* clearTimeout on a timer that has fired changes nothing.
cleanupKeepsInterval ==
    [timer |-> timer,
     timeoutTimer |-> IF timeoutTimer = "active" THEN "cleared" ELSE timeoutTimer]

cleanup ==
    [timer |-> "cleared",
     timeoutTimer |-> IF timeoutTimer = "active" THEN "cleared" ELSE timeoutTimer]

\* The guard of line 115 under which slot i may take a task.
slotFreeAlways(q, i) == TRUE

slotFree(q, i) == q[i] = 0

\* fillQueue(): for i = 0 .. pLimit-1, an empty slot takes the LAST remaining
\* task (pop) and invokes it. s = [queue, todo, status, log].
RECURSIVE fillFrom(_, _)
fillFrom(i, s) ==
    IF i > pLimit THEN s
    ELSE IF slotFree(s.queue, i) /\ Len(s.todo) > 0
         THEN LET t == s.todo[Len(s.todo)]
              IN  fillFrom(i + 1,
                      [queue  |-> [s.queue EXCEPT ![i] = t],
                       todo   |-> SubSeq(s.todo, 1, Len(s.todo) - 1),
                       status |-> [s.status EXCEPT ![t] = "running"],
                       log    |-> Append(s.log, t)])
         ELSE fillFrom(i + 1, s)

fillQueue ==
    fillFrom(1, [queue |-> queue, todo |-> taskToBeExcuted,
                 status |-> status, log |-> startedLog])

\* if (tasks.length === 0) return resolve() (lines 84-86).
emptyBatchNever(n) == FALSE

emptyBatchUnlessTimeout(n) == n = 0 /\ timeout = 0

emptyBatch(n) == n = 0

BatchInit ==
    /\ called = FALSE
    /\ nTasks \in 0..MaxTasks
    /\ limit \in 1..MaxLimit
    /\ timeout \in {0, 1}
    /\ fails \in SUBSET (1..nTasks)
    /\ taskToBeExcuted = <<>>
    /\ queue = [i \in 1..limit |-> 0]
    /\ status = [t \in 1..nTasks |-> "unstarted"]
    /\ startedLog = <<>>
    /\ timer = "unset"
    /\ timeoutTimer = "unset"
    /\ promise = "pending"

\* The promise executor, lines 83-101: N = 0 resolves at once and returns; else
\* copy the tasks, fillQueue(), setInterval, and setTimeout if (timeout).
ConcurrentDoStep ==
    /\ ~called
    /\ called' = TRUE
    /\ IF emptyBatch(nTasks)
       THEN /\ promise' = settle("resolved")
            /\ UNCHANGED <<taskToBeExcuted, queue, status, startedLog, timer, timeoutTimer>>
       ELSE LET s == fillFrom(1, [queue |-> queue,
                                  todo |-> [t \in 1..nTasks |-> t],
                                  status |-> status, log |-> startedLog])
            IN  /\ queue' = s.queue
                /\ taskToBeExcuted' = s.todo
                /\ status' = s.status
                /\ startedLog' = s.log
                /\ timer' = "active"
                /\ timeoutTimer' = IF timeout # 0 THEN "active" ELSE "unset"
                /\ UNCHANGED promise
    /\ UNCHANGED <<nTasks, limit, timeout, fails>>

ConcurrentDo == ConcurrentDoStep /\ UNCHANGED nonBatchVars

\* One firing of the setInterval callback, lines 93-95.
TickStep ==
    /\ called
    /\ timer = "active"
    /\ LET s == fillQueue
       IN  /\ queue' = s.queue
           /\ taskToBeExcuted' = s.todo
           /\ status' = s.status
           /\ startedLog' = s.log
    /\ UNCHANGED <<called, nTasks, limit, timeout, fails, timer, timeoutTimer, promise>>

Tick == TickStep /\ UNCHANGED nonBatchVars

\* The setTimeout callback, lines 98-101: clearTimeout(timeoutTimer); reject(...).
\* It does not call cleanup(): the interval is left as it is.
TimeoutExpireStep ==
    /\ called
    /\ timeoutTimer = "active"
    /\ timeoutTimer' = "fired"
    /\ promise' = settle("rejectedTimeout")
    /\ UNCHANGED <<called, nTasks, limit, timeout, fails, taskToBeExcuted, queue,
                   status, startedLog, timer>>

TimeoutExpire == TimeoutExpireStep /\ UNCHANGED nonBatchVars

\* The .then callback of the task in slot i, lines 118-124.
TaskThenStep(i) ==
    /\ called
    /\ i \in Slots
    /\ queue[i] # 0
    /\ status[queue[i]] = "running"
    /\ queue[i] \notin fails
    /\ LET q == freeSlot(queue, i)
       IN  /\ queue' = q
           /\ status' = [status EXCEPT ![queue[i]] = "done"]
           /\ IF allDone(taskToBeExcuted, q)
              THEN /\ timer' = cleanup.timer
                   /\ timeoutTimer' = cleanup.timeoutTimer
                   /\ promise' = settle("resolved")
              ELSE UNCHANGED <<timer, timeoutTimer, promise>>
    /\ UNCHANGED <<called, nTasks, limit, timeout, fails, taskToBeExcuted, startedLog>>

TaskThen(i) == TaskThenStep(i) /\ UNCHANGED nonBatchVars

\* The .catch callback of the task in slot i, lines 125-128. The slot keeps
\* its (rejected) promise: queue[i] is not reset.
TaskCatchStep(i) ==
    /\ called
    /\ i \in Slots
    /\ queue[i] # 0
    /\ status[queue[i]] = "running"
    /\ queue[i] \in fails
    /\ status' = [status EXCEPT ![queue[i]] = "failed"]
    /\ timer' = cleanup.timer
    /\ timeoutTimer' = cleanup.timeoutTimer
    /\ promise' = settle("rejectedErr")
    /\ UNCHANGED <<called, nTasks, limit, timeout, fails, taskToBeExcuted, queue, startedLog>>

TaskCatch(i) == TaskCatchStep(i) /\ UNCHANGED nonBatchVars

\* ======================================================================
\* Part 2: bot.on("document")
\* ======================================================================

\* The awaits of the try block in program order (lines 37-61).
Stages ==
    <<"reply", "fetchStickerSetObject", "retrieveImageIds", "downloadStickers",
      "processStickers", "uploadStickers", "addImageIds", "delay1000",
      "createStickerSet", "delay8000", "addStickers">>

StageSet == {Stages[k] : k \in 1..Len(Stages)}

StageIndex(p) == CHOOSE k \in 1..Len(Stages) : Stages[k] = p

\* delay() only resolves (utils.ts 62-68); every other await may reject.
CanThrow(p) == p \notin {"delay1000", "delay8000"}

GateInit ==
    /\ processingChat = [u \in Users |-> FALSE]
    /\ pc = [r \in Runs |-> "idle"]
    /\ user = [r \in Runs |-> 0]
    /\ admitted = [r \in Runs |-> FALSE]
    /\ releases = [r \in Runs |-> 0]

\* Handler invocations are numbered in the order their events arrive.
Arrived(r) == IF r = 0 THEN TRUE ELSE pc[r] # "idle"

\* The catch block up to its await, lines 232-239: clear the flag, then reply.
Catch(r) ==
    /\ processingChat' = [processingChat EXCEPT ![user[r]] = FALSE]
    /\ releases' = [releases EXCEPT ![r] = @ + 1]
    /\ pc' = [pc EXCEPT ![r] = "catchReply"]

\* A document event of user u whose flag is unset, lines 30-37: take the flag,
\* start the acknowledgement reply.
Admit(r, u) ==
    /\ pc[r] = "idle"
    /\ Arrived(r - 1)
    /\ ~processingChat[u]
    /\ user' = [user EXCEPT ![r] = u]
    /\ processingChat' = [processingChat EXCEPT ![u] = TRUE]
    /\ admitted' = [admitted EXCEPT ![r] = TRUE]
    /\ pc' = [pc EXCEPT ![r] = "reply"]
    /\ UNCHANGED releases
    /\ UNCHANGED nonGateVars

\* A document event of user u whose flag is set, lines 33-34 and 232-236: the
\* BotError thrown at line 34 is caught by the same catch block.
Reject(r, u) ==
    /\ pc[r] = "idle"
    /\ Arrived(r - 1)
    /\ processingChat[u]
    /\ user' = [user EXCEPT ![r] = u]
    /\ processingChat' = [processingChat EXCEPT ![u] = FALSE]
    /\ releases' = [releases EXCEPT ![r] = @ + 1]
    /\ pc' = [pc EXCEPT ![r] = "catchReply"]
    /\ UNCHANGED admitted
    /\ UNCHANGED nonGateVars

\* The awaited call of the current stage resolves and the next one is issued.
StageOk(r) ==
    /\ pc[r] \in StageSet \ {"addStickers"}
    /\ pc' = [pc EXCEPT ![r] = Stages[StageIndex(pc[r]) + 1]]
    /\ UNCHANGED <<processingChat, user, admitted, releases>>
    /\ UNCHANGED nonGateVars

\* The awaited call of the current stage rejects: control enters the catch block.
StageThrow(r) ==
    /\ pc[r] \in StageSet
    /\ CanThrow(pc[r])
    /\ Catch(r)
    /\ UNCHANGED <<user, admitted>>
    /\ UNCHANGED nonGateVars

\* addStickers() resolves, lines 61-64: clear the flag, issue the final log.
AddStickersOk(r) ==
    /\ pc[r] = "addStickers"
    /\ processingChat' = [processingChat EXCEPT ![user[r]] = FALSE]
    /\ releases' = [releases EXCEPT ![r] = @ + 1]
    /\ pc' = [pc EXCEPT ![r] = "log"]
    /\ UNCHANGED <<user, admitted>>
    /\ UNCHANGED nonGateVars

\* The final log resolves: the handler returns.
LogOk(r) ==
    /\ pc[r] = "log"
    /\ pc' = [pc EXCEPT ![r] = "returned"]
    /\ UNCHANGED <<processingChat, user, admitted, releases>>
    /\ UNCHANGED nonGateVars

\* The final log (ctx.reply at line 229) rejects: it is inside the try block.
LogThrow(r) ==
    /\ pc[r] = "log"
    /\ Catch(r)
    /\ UNCHANGED <<user, admitted>>
    /\ UNCHANGED nonGateVars

\* The reply of the catch block resolves (lines 236, 239): the handler returns.
CatchReplyOk(r) ==
    /\ pc[r] = "catchReply"
    /\ pc' = [pc EXCEPT ![r] = "caught"]
    /\ UNCHANGED <<processingChat, user, admitted, releases>>
    /\ UNCHANGED nonGateVars

\* The reply of the catch block rejects: the handler's promise rejects.
CatchReplyThrow(r) ==
    /\ pc[r] = "catchReply"
    /\ pc' = [pc EXCEPT ![r] = "threw"]
    /\ UNCHANGED <<processingChat, user, admitted, releases>>
    /\ UNCHANGED nonGateVars

\* ======================================================================
\* Part 3: the retrying wrappers of index.ts
\* ======================================================================

Wrappers == {"downloadSticker", "uploadSticker", "addSticker"}

DownloadAttempts == 3
UploadAttempts == 3
AddAttempts == 5

\* The attempt budget of the while loop (lines 101, 143, 199).
Attempts(w) ==
    IF w = "downloadSticker" THEN DownloadAttempts
    ELSE IF w = "uploadSticker" THEN UploadAttempts
    ELSE AddAttempts

\* The catch block awaits delay(1000) in uploadSticker and addSticker (lines
\* 152, 208); downloadSticker has no delay.
DelaysAfterFault(w) == w \in {"uploadSticker", "addSticker"}

\* The loop test while (times < A).
loopContinuesOffByOne(w, t) == t <= Attempts(w)

loopContinues(w, t) == t < Attempts(w)

\* What leaves the wrapper after the loop: throw new BotError(...), lines
\* 112, 156, 212; the caught fault is only logged.
surfacedRaw(err) == err

surfaced(err) == "BotError"

RetryInit ==
    /\ wrapper \in Wrappers
    /\ faults \in 0..MaxFaults
    /\ rpc = "notCalled"
    /\ times = 0
    /\ error = "undefined"
    /\ invocations = 0
    /\ delays = 0
    /\ thrown = "none"

\* The loop head with counter t: either the remote operation is invoked and
\* awaited, or the loop is left and the domain error is thrown.
LoopHead(t, err) ==
    IF loopContinues(wrapper, t)
    THEN /\ invocations' = invocations + 1
         /\ rpc' = "awaitOp"
         /\ thrown' = thrown
    ELSE /\ invocations' = invocations
         /\ rpc' = "threw"
         /\ thrown' = surfaced(err)

\* The wrapper is called: times = 0, first pass through the loop head.
WrapperCall ==
    /\ rpc = "notCalled"
    /\ LoopHead(times, error)
    /\ UNCHANGED <<wrapper, faults, times, error, delays>>
    /\ UNCHANGED nonRetryVars

\* The awaited remote operation resolves: return (lines 104, 148, 203).
OpResolves ==
    /\ rpc = "awaitOp"
    /\ invocations > faults
    /\ rpc' = "returned"
    /\ UNCHANGED <<wrapper, faults, times, error, invocations, delays, thrown>>
    /\ UNCHANGED nonRetryVars

\* The awaited remote operation rejects: times++, error = err, then either
\* await delay(1000) or, in downloadSticker, straight back to the loop head.
OpRejects ==
    /\ rpc = "awaitOp"
    /\ invocations <= faults
    /\ times' = times + 1
    /\ error' = "raw"
    /\ IF DelaysAfterFault(wrapper)
       THEN /\ delays' = delays + 1
            /\ rpc' = "awaitDelay"
            /\ UNCHANGED <<invocations, thrown>>
       ELSE /\ LoopHead(times + 1, "raw")
            /\ UNCHANGED delays
    /\ UNCHANGED <<wrapper, faults>>
    /\ UNCHANGED nonRetryVars

\* delay(1000) resolves: back to the loop head.
DelayDone ==
    /\ rpc = "awaitDelay"
    /\ LoopHead(times, error)
    /\ UNCHANGED <<wrapper, faults, times, error, delays>>
    /\ UNCHANGED nonRetryVars

\* ======================================================================
\* Part 4: one run of bot.on("document") with its stickers, the image-id
\* cache and the three concurrentDo batches
\* ======================================================================

DownloadLimit == 5
UploadLimit == 5
AddLimit == 2

Items == 1..nItems
ItemIds == 1..MaxItems
ArtifactIds == 1..MaxArtifacts

\* sticker.id.toString() (line 170): the decimal string of an id, here one digit.
DocId(id) == <<id>>

\* parseInt(doc.id) (line 79).
ParseInt(d) == d[1]

DocIds == {DocId(i) : i \in ItemIds}

\* The collaborator calls a run issues once.
CallNames ==
    {"getFileLink", "axiosGet", "retrieveImageIds", "processStickers",
     "addImageIds", "createNewStickerSet"}

\* The awaits of ctx.reply: line 37 and every log().
NotifyPositions ==
    {"reply", "downloadLog", "downloadDoneLog", "processLog", "processDoneLog",
     "uploadLog", "uploadDoneLog", "createLog", "addLog", "log"}

\* The awaits of a collaborator call that may reject.
ThrowPositions ==
    NotifyPositions \cup
    {"getFileLink", "axiosGet", "retrieveImageIds", "addImageIds", "createNewStickerSet"}

BatchPositions == {"downloadBatch", "uploadBatch", "addBatch"}

\* The stages in program order (lines 40-61).
StageOrder ==
    <<"fetch", "partition", "download", "process", "upload", "persist", "create", "append">>

\* isLineStickerSet(result) (utils.ts 15-31) on the parsed document.
validatesAnything(kind) == kind # "unparsable"

validates(kind) == kind = "valid"

\* retrieveImageIds(): result[parseInt(doc.id)] = doc.data().fileId for every document.
retrieveImageIds(st) ==
    [i \in ItemIds |->
        IF \E d \in DOMAIN st : ParseInt(d) = i /\ st[d] # 0
        THEN st[CHOOSE d \in DOMAIN st : ParseInt(d) = i /\ st[d] # 0]
        ELSE 0]

\* The else branch of line 48: no truthy cache entry for the sticker's id.
needsUploadAlways(ex, i) == TRUE

needsUpload(ex, i) == ex[i] = 0

\* stickersToBeUploaded after the forEach of lines 47-52.
partition(ex, n) ==
    LET test(i) == needsUpload(ex, i)
    IN  SelectSeq([i \in 1..n |-> i], test)

\* sticker.fileId after the forEach of lines 47-52: cached stickers take the cached id.
cachedFileIds(ex, n) ==
    [i \in ItemIds |-> IF i \in 1..n /\ ~needsUpload(ex, i) THEN ex[i] ELSE 0]

\* The batch built by addImageIds(stickers), lines 167-174.
imageIdBatch(stickers, fid) ==
    [i \in ItemIds |->
        IF (\E k \in 1..Len(stickers) : stickers[k] = i) /\ fid[i] # 0 THEN fid[i] ELSE 0]

\* batch.commit(): every set() of the batch overwrites its document.
commit(st, batch) ==
    [d \in DOMAIN st |-> IF batch[ParseInt(d)] # 0 THEN batch[ParseInt(d)] ELSE st[d]]

\* stickerSet.stickers.slice(1).length (line 190).
remainingCount(n) == IF n > 0 THEN n - 1 ELSE 0

\* The sticker a task of the current batch works on.
ItemOfTask(t) == IF batchKind = "add" THEN t + 1 ELSE toBeUploaded[t]

StartedItems(log) == {ItemOfTask(log[k]) : k \in 1..Len(log)}

\* await concurrentDo(...): the continuation runs once the promise is resolved.
awaitedNot(p) == TRUE

awaited(p) == p = "resolved"

\* The arguments of a concurrentDo call: n tasks, the limit, a positive
\* timeout; which tasks exhaust their retries is the tasks' own behaviour.
SetupBatch(n, lim) ==
    /\ called' = FALSE
    /\ nTasks' = n
    /\ limit' = lim
    /\ timeout' = 1
    /\ fails' \in SUBSET (1..n)
    /\ taskToBeExcuted' = <<>>
    /\ queue' = [i \in 1..lim |-> 0]
    /\ status' = [t \in 1..n |-> "unstarted"]
    /\ startedLog' = <<>>
    /\ timer' = "unset"
    /\ timeoutTimer' = "unset"
    /\ promise' = "pending"

\* The tasks of the current batch that were invoked, by stage.
RecordStarted ==
    /\ dlStarted' = IF batchKind = "download"
                    THEN dlStarted \cup StartedItems(startedLog') ELSE dlStarted
    /\ upStarted' = IF batchKind = "upload"
                    THEN upStarted \cup StartedItems(startedLog') ELSE upStarted
    /\ addStarted' = IF batchKind = "add"
                     THEN addStarted \cup StartedItems(startedLog') ELSE addStarted

\* Control enters the catch block with err (lines 232-239).
PipeCatch(err, at) ==
    /\ ppc' = "catchReply"
    /\ caught' = err
    /\ failedAt' = at

PipeIdle ==
    /\ ppc = "idle" /\ docKind = "valid" /\ nItems = 0
    /\ store = [d \in DocIds |-> 0]
    /\ existingImageIds = [i \in ItemIds |-> 0]
    /\ toBeUploaded = <<>>
    /\ image = [i \in ItemIds |-> "none"]
    /\ fileId = [i \in ItemIds |-> 0]
    /\ batchKind = "none"
    /\ dlStarted = {} /\ upStarted = {} /\ addStarted = {}
    /\ calls = [c \in CallNames |-> 0]
    /\ acks = {}
    /\ written = [i \in ItemIds |-> 0]
    /\ trace = <<>>
    /\ caught = "none" /\ failedAt = "none"

PipeInit ==
    /\ ppc = "idle"
    /\ docKind \in {"valid", "invalid", "unparsable"}
    /\ nItems \in 0..MaxItems
    /\ docKind # "valid" => nItems = 0
    /\ store \in [DocIds -> 0..MaxArtifacts]
    /\ existingImageIds = [i \in ItemIds |-> 0]
    /\ toBeUploaded = <<>>
    /\ image = [i \in ItemIds |-> "none"]
    /\ fileId = [i \in ItemIds |-> 0]
    /\ batchKind = "none"
    /\ dlStarted = {} /\ upStarted = {} /\ addStarted = {}
    /\ calls = [c \in CallNames |-> 0]
    /\ acks = {}
    /\ written = [i \in ItemIds |-> 0]
    /\ trace = <<>>
    /\ caught = "none" /\ failedAt = "none"

\* The document event arrives and is admitted; the acknowledgement reply is
\* issued (lines 30-37).
Document ==
    /\ ppc = "idle"
    /\ ppc' = "reply"
    /\ UNCHANGED <<docKind, nItems, store, existingImageIds, toBeUploaded, image, fileId,
                   batchKind, dlStarted, upStarted, addStarted, calls, acks, written,
                   trace, caught, failedAt>>
    /\ UNCHANGED nonPipeVars

\* The acknowledgement resolves: fetchStickerSetObject() asks for the file link (line 67).
ReplyOk ==
    /\ ppc = "reply"
    /\ calls' = [calls EXCEPT !["getFileLink"] = @ + 1]
    /\ ppc' = "getFileLink"
    /\ UNCHANGED <<docKind, nItems, store, existingImageIds, toBeUploaded, image, fileId,
                   batchKind, dlStarted, upStarted, addStarted, acks, written, trace,
                   caught, failedAt>>
    /\ UNCHANGED nonPipeVars

\* getFileLink resolves: the document is requested with axios.get (line 69).
GetFileLinkOk ==
    /\ ppc = "getFileLink"
    /\ acks' = acks \cup {"getFileLink"}
    /\ calls' = [calls EXCEPT !["axiosGet"] = @ + 1]
    /\ ppc' = "axiosGet"
    /\ UNCHANGED <<docKind, nItems, store, existingImageIds, toBeUploaded, image, fileId,
                   batchKind, dlStarted, upStarted, addStarted, written, trace, caught,
                   failedAt>>
    /\ UNCHANGED nonPipeVars

\* axios.get resolves, lines 69-72 and 40-44: JSON.parse and isLineStickerSet;
\* a valid document goes on to retrieveImageIds(), an invalid one throws the
\* BotError of line 72, an unparsable one a raw error.
AxiosGetOk ==
    /\ ppc = "axiosGet"
    /\ acks' = acks \cup {"axiosGet"}
    /\ IF docKind = "unparsable"
       THEN PipeCatch("raw", "parse") /\ UNCHANGED <<calls, trace>>
       ELSE IF validates(docKind)
            THEN /\ calls' = [calls EXCEPT !["retrieveImageIds"] = @ + 1]
                 /\ trace' = Append(trace, "fetch")
                 /\ ppc' = "retrieveImageIds"
                 /\ UNCHANGED <<caught, failedAt>>
            ELSE PipeCatch("BadInput", "validate") /\ UNCHANGED <<calls, trace>>
    /\ UNCHANGED <<docKind, nItems, store, existingImageIds, toBeUploaded, image, fileId,
                   batchKind, dlStarted, upStarted, addStarted, written>>
    /\ UNCHANGED nonPipeVars

\* The cache read resolves, lines 44-52 and 84-85: partition the stickers,
\* then downloadStickers() issues its first log.
RetrieveOk ==
    /\ ppc = "retrieveImageIds"
    /\ acks' = acks \cup {"retrieveImageIds"}
    /\ existingImageIds' = retrieveImageIds(store)
    /\ toBeUploaded' = partition(retrieveImageIds(store), nItems)
    /\ fileId' = cachedFileIds(retrieveImageIds(store), nItems)
    /\ trace' = Append(trace, "partition")
    /\ batchKind' = "download"
    /\ SetupBatch(Len(partition(retrieveImageIds(store), nItems)), DownloadLimit)
    /\ ppc' = "downloadLog"
    /\ UNCHANGED <<docKind, nItems, store, image, dlStarted, upStarted, addStarted, calls,
                   written, caught, failedAt>>
    /\ UNCHANGED nonPipeBatchVars

\* The log of line 85 resolves: concurrentDo is called with the download tasks.
DownloadLogOk ==
    /\ ppc = "downloadLog"
    /\ ConcurrentDoStep
    /\ RecordStarted
    /\ ppc' = "downloadBatch"
    /\ UNCHANGED <<docKind, nItems, store, existingImageIds, toBeUploaded, image, fileId,
                   batchKind, calls, acks, written, trace, caught, failedAt>>
    /\ UNCHANGED nonPipeBatchVars

\* The download batch resolved: log of line 96.
DownloadResolved ==
    /\ ppc = "downloadBatch"
    /\ awaited(promise)
    /\ trace' = Append(trace, "download")
    /\ ppc' = "downloadDoneLog"
    /\ UNCHANGED <<docKind, nItems, store, existingImageIds, toBeUploaded, image, fileId,
                   batchKind, dlStarted, upStarted, addStarted, calls, acks, written,
                   caught, failedAt>>
    /\ UNCHANGED nonPipeVars

\* The log of line 96 resolves: processStickers() issues its first log (line 121).
DownloadDoneLogOk ==
    /\ ppc = "downloadDoneLog"
    /\ ppc' = "processLog"
    /\ UNCHANGED <<docKind, nItems, store, existingImageIds, toBeUploaded, image, fileId,
                   batchKind, dlStarted, upStarted, addStarted, calls, acks, written,
                   trace, caught, failedAt>>
    /\ UNCHANGED nonPipeVars

\* The log of line 121 resolves: Promise.all over normalizeImage of every
\* sticker to be uploaded (lines 122-126).
ProcessLogOk ==
    /\ ppc = "processLog"
    /\ calls' = [calls EXCEPT !["processStickers"] = @ + 1]
    /\ ppc' = "processAll"
    /\ UNCHANGED <<docKind, nItems, store, existingImageIds, toBeUploaded, image, fileId,
                   batchKind, dlStarted, upStarted, addStarted, acks, written, trace,
                   caught, failedAt>>
    /\ UNCHANGED nonPipeVars

\* One normalizeImage resolves: sticker.image = the normalized image (line 124).
ProcessItem(i) ==
    /\ calls["processStickers"] > 0
    /\ \E k \in 1..Len(toBeUploaded) : toBeUploaded[k] = i
    /\ image[i] = "raw"
    /\ image' = [image EXCEPT ![i] = "png"]
    /\ UNCHANGED <<ppc, docKind, nItems, store, existingImageIds, toBeUploaded, fileId,
                   batchKind, dlStarted, upStarted, addStarted, calls, acks, written,
                   trace, caught, failedAt>>
    /\ UNCHANGED nonPipeVars

\* Promise.all resolves: log of line 127.
ProcessResolved ==
    /\ ppc = "processAll"
    /\ \A k \in 1..Len(toBeUploaded) : image[toBeUploaded[k]] = "png"
    /\ trace' = Append(trace, "process")
    /\ ppc' = "processDoneLog"
    /\ UNCHANGED <<docKind, nItems, store, existingImageIds, toBeUploaded, image, fileId,
                   batchKind, dlStarted, upStarted, addStarted, calls, acks, written,
                   caught, failedAt>>
    /\ UNCHANGED nonPipeVars

\* One normalizeImage rejects: Promise.all rejects at once.
ProcessRejected ==
    /\ ppc = "processAll"
    /\ \E k \in 1..Len(toBeUploaded) : image[toBeUploaded[k]] = "raw"
    /\ PipeCatch("raw", "processAll")
    /\ UNCHANGED <<docKind, nItems, store, existingImageIds, toBeUploaded, image, fileId,
                   batchKind, dlStarted, upStarted, addStarted, calls, acks, written, trace>>
    /\ UNCHANGED nonPipeVars

\* The log of line 127 resolves: uploadStickers() issues its first log (line 131).
ProcessDoneLogOk ==
    /\ ppc = "processDoneLog"
    /\ batchKind' = "upload"
    /\ SetupBatch(Len(toBeUploaded), UploadLimit)
    /\ ppc' = "uploadLog"
    /\ UNCHANGED <<docKind, nItems, store, existingImageIds, toBeUploaded, image, fileId,
                   dlStarted, upStarted, addStarted, calls, acks, written, trace, caught,
                   failedAt>>
    /\ UNCHANGED nonPipeBatchVars

\* The log of line 131 resolves: concurrentDo is called with the upload tasks.
UploadLogOk ==
    /\ ppc = "uploadLog"
    /\ ConcurrentDoStep
    /\ RecordStarted
    /\ ppc' = "uploadBatch"
    /\ UNCHANGED <<docKind, nItems, store, existingImageIds, toBeUploaded, image, fileId,
                   batchKind, calls, acks, written, trace, caught, failedAt>>
    /\ UNCHANGED nonPipeBatchVars

\* The upload batch resolved: log of line 138.
UploadResolved ==
    /\ ppc = "uploadBatch"
    /\ awaited(promise)
    /\ trace' = Append(trace, "upload")
    /\ ppc' = "uploadDoneLog"
    /\ UNCHANGED <<docKind, nItems, store, existingImageIds, toBeUploaded, image, fileId,
                   batchKind, dlStarted, upStarted, addStarted, calls, acks, written,
                   caught, failedAt>>
    /\ UNCHANGED nonPipeVars

\* The log of line 138 resolves: addImageIds(stickersToBeUploaded) builds its
\* batch and commits it (lines 57, 166-175).
UploadDoneLogOk ==
    /\ ppc = "uploadDoneLog"
    /\ written' = imageIdBatch(toBeUploaded, fileId)
    /\ calls' = [calls EXCEPT !["addImageIds"] = @ + 1]
    /\ ppc' = "addImageIds"
    /\ UNCHANGED <<docKind, nItems, store, existingImageIds, toBeUploaded, image, fileId,
                   batchKind, dlStarted, upStarted, addStarted, acks, trace, caught,
                   failedAt>>
    /\ UNCHANGED nonPipeVars

\* batch.commit() resolves: the documents are written; delay(1000) (line 58).
CommitOk ==
    /\ ppc = "addImageIds"
    /\ store' = commit(store, written)
    /\ acks' = acks \cup {"addImageIds"}
    /\ trace' = Append(trace, "persist")
    /\ ppc' = "delay1000"
    /\ UNCHANGED <<docKind, nItems, existingImageIds, toBeUploaded, image, fileId,
                   batchKind, dlStarted, upStarted, addStarted, calls, written, caught,
                   failedAt>>
    /\ UNCHANGED nonPipeVars

\* delay(1000) resolves: createStickerSet() (lines 59, 178-183). Without a
\* first sticker, firstSticker.fileId throws a TypeError.
Delay1000Done ==
    /\ ppc = "delay1000"
    /\ IF nItems = 0
       THEN PipeCatch("raw", "createStickerSet") /\ UNCHANGED calls
       ELSE /\ calls' = [calls EXCEPT !["createNewStickerSet"] = @ + 1]
            /\ ppc' = "createNewStickerSet"
            /\ UNCHANGED <<caught, failedAt>>
    /\ UNCHANGED <<docKind, nItems, store, existingImageIds, toBeUploaded, image, fileId,
                   batchKind, dlStarted, upStarted, addStarted, acks, written, trace>>
    /\ UNCHANGED nonPipeVars

\* createNewStickerSet resolves: log of line 184.
CreateOk ==
    /\ ppc = "createNewStickerSet"
    /\ acks' = acks \cup {"createNewStickerSet"}
    /\ trace' = Append(trace, "create")
    /\ ppc' = "createLog"
    /\ UNCHANGED <<docKind, nItems, store, existingImageIds, toBeUploaded, image, fileId,
                   batchKind, dlStarted, upStarted, addStarted, calls, written, caught,
                   failedAt>>
    /\ UNCHANGED nonPipeVars

\* The log of line 184 resolves: delay(8000) (line 60).
CreateLogOk ==
    /\ ppc = "createLog"
    /\ ppc' = "delay8000"
    /\ UNCHANGED <<docKind, nItems, store, existingImageIds, toBeUploaded, image, fileId,
                   batchKind, dlStarted, upStarted, addStarted, calls, acks, written,
                   trace, caught, failedAt>>
    /\ UNCHANGED nonPipeVars

\* delay(8000) resolves: addStickers() issues its log (lines 61, 188).
Delay8000Done ==
    /\ ppc = "delay8000"
    /\ batchKind' = "add"
    /\ SetupBatch(remainingCount(nItems), AddLimit)
    /\ ppc' = "addLog"
    /\ UNCHANGED <<docKind, nItems, store, existingImageIds, toBeUploaded, image, fileId,
                   dlStarted, upStarted, addStarted, calls, acks, written, trace, caught,
                   failedAt>>
    /\ UNCHANGED nonPipeBatchVars

\* The log of line 188 resolves: concurrentDo is called with the append tasks
\* of stickers.slice(1).
AddLogOk ==
    /\ ppc = "addLog"
    /\ ConcurrentDoStep
    /\ RecordStarted
    /\ ppc' = "addBatch"
    /\ UNCHANGED <<docKind, nItems, store, existingImageIds, toBeUploaded, image, fileId,
                   batchKind, calls, acks, written, trace, caught, failedAt>>
    /\ UNCHANGED nonPipeBatchVars

\* The append batch resolved: lines 63-64, the final log is issued.
AddResolved ==
    /\ ppc = "addBatch"
    /\ awaited(promise)
    /\ trace' = Append(trace, "append")
    /\ ppc' = "log"
    /\ UNCHANGED <<docKind, nItems, store, existingImageIds, toBeUploaded, image, fileId,
                   batchKind, dlStarted, upStarted, addStarted, calls, acks, written,
                   caught, failedAt>>
    /\ UNCHANGED nonPipeVars

\* The final log resolves: the handler returns.
FinalLogOk ==
    /\ ppc = "log"
    /\ ppc' = "returned"
    /\ UNCHANGED <<docKind, nItems, store, existingImageIds, toBeUploaded, image, fileId,
                   batchKind, dlStarted, upStarted, addStarted, calls, acks, written,
                   trace, caught, failedAt>>
    /\ UNCHANGED nonPipeVars

\* The awaited concurrentDo promise is rejected: by the timeout with
\* BotError("操作超时了"), by a task with the BotError of its wrapper.
BatchRejected ==
    /\ ppc \in BatchPositions
    /\ promise \in {"rejectedErr", "rejectedTimeout"}
    /\ PipeCatch(IF promise = "rejectedTimeout" THEN "Timeout" ELSE "StageError", ppc)
    /\ UNCHANGED <<docKind, nItems, store, existingImageIds, toBeUploaded, image, fileId,
                   batchKind, dlStarted, upStarted, addStarted, calls, acks, written, trace>>
    /\ UNCHANGED nonPipeVars

\* An awaited collaborator call (a reply, a log, a fetch, a cache or a Telegram
\* call) rejects: the raw error reaches the catch block.
AwaitThrows ==
    /\ ppc \in ThrowPositions
    /\ PipeCatch("raw", ppc)
    /\ UNCHANGED <<docKind, nItems, store, existingImageIds, toBeUploaded, image, fileId,
                   batchKind, dlStarted, upStarted, addStarted, calls, acks, written, trace>>
    /\ UNCHANGED nonPipeVars

\* The reply of the catch block settles: the handler ends.
PipeCatchReplyDone ==
    /\ ppc = "catchReply"
    /\ ppc' = "caught"
    /\ UNCHANGED <<docKind, nItems, store, existingImageIds, toBeUploaded, image, fileId,
                   batchKind, dlStarted, upStarted, addStarted, calls, acks, written,
                   trace, caught, failedAt>>
    /\ UNCHANGED nonPipeVars

\* The setInterval callback of the current batch.
PipeTick ==
    /\ batchKind # "none"
    /\ TickStep
    /\ RecordStarted
    /\ UNCHANGED <<ppc, docKind, nItems, store, existingImageIds, toBeUploaded, image,
                   fileId, batchKind, calls, acks, written, trace, caught, failedAt>>
    /\ UNCHANGED nonPipeBatchVars

\* The setTimeout callback of the current batch.
PipeTimeoutExpire ==
    /\ batchKind # "none"
    /\ TimeoutExpireStep
    /\ UNCHANGED <<ppc, docKind, nItems, store, existingImageIds, toBeUploaded, image,
                   fileId, batchKind, dlStarted, upStarted, addStarted, calls, acks,
                   written, trace, caught, failedAt>>
    /\ UNCHANGED nonPipeBatchVars

\* A task of the current batch succeeds: its own effect (line 89: sticker.image
\* = image; line 146: sticker.fileId = file_id, an id chosen by Telegram), then
\* the .then callback of concurrentDo.
PipeTaskThen(i) ==
    /\ batchKind # "none"
    /\ TaskThenStep(i)
    /\ IF batchKind = "download"
       THEN /\ image' = [image EXCEPT ![ItemOfTask(queue[i])] = "raw"]
            /\ UNCHANGED fileId
       ELSE IF batchKind = "upload"
            THEN /\ \E a \in ArtifactIds : fileId' = [fileId EXCEPT ![ItemOfTask(queue[i])] = a]
                 /\ UNCHANGED image
            ELSE UNCHANGED <<image, fileId>>
    /\ UNCHANGED <<ppc, docKind, nItems, store, existingImageIds, toBeUploaded, batchKind,
                   dlStarted, upStarted, addStarted, calls, acks, written, trace, caught,
                   failedAt>>
    /\ UNCHANGED nonPipeBatchVars

\* A task of the current batch exhausted its retries: the .catch callback of
\* concurrentDo.
PipeTaskCatch(i) ==
    /\ batchKind # "none"
    /\ TaskCatchStep(i)
    /\ UNCHANGED <<ppc, docKind, nItems, store, existingImageIds, toBeUploaded, image,
                   fileId, batchKind, dlStarted, upStarted, addStarted, calls, acks,
                   written, trace, caught, failedAt>>
    /\ UNCHANGED nonPipeBatchVars

\* ======================================================================
\* Part 5: concurrent runs and the image-id cache. Each run is reduced to
\* the steps between its cache read (line 44) and its cache write (line 57).
\* ======================================================================

CacheRuns == 1..MaxCacheRuns

CacheIdle ==
    /\ cpc = [r \in CacheRuns |-> "idle"]
    /\ cItems = [r \in CacheRuns |-> 0]
    /\ cToBeUploaded = [r \in CacheRuns |-> <<>>]
    /\ cFileId = [r \in CacheRuns |-> [i \in ItemIds |-> 0]]

\* Run r, with a set of n stickers, reads the cache and partitions (lines 44-52).
CacheRead(r, n) ==
    /\ cpc[r] = "idle"
    /\ cItems' = [cItems EXCEPT ![r] = n]
    /\ cToBeUploaded' = [cToBeUploaded EXCEPT ![r] = partition(retrieveImageIds(store), n)]
    /\ cFileId' = [cFileId EXCEPT ![r] = cachedFileIds(retrieveImageIds(store), n)]
    /\ cpc' = [cpc EXCEPT ![r] = "uploading"]
    /\ UNCHANGED store
    /\ UNCHANGED nonCacheVars

\* uploadStickerFile of sticker i resolves in run r with an id chosen by
\* Telegram (line 146).
CacheUpload(r, i, a) ==
    /\ cpc[r] = "uploading"
    /\ \E k \in 1..Len(cToBeUploaded[r]) : cToBeUploaded[r][k] = i
    /\ cFileId[r][i] = 0
    /\ cFileId' = [cFileId EXCEPT ![r][i] = a]
    /\ UNCHANGED <<cpc, cItems, cToBeUploaded, store>>
    /\ UNCHANGED nonCacheVars

\* Every upload of run r is done: addImageIds(stickersToBeUploaded) commits
\* its batch (lines 57, 166-175).
CacheCommit(r) ==
    /\ cpc[r] = "uploading"
    /\ \A k \in 1..Len(cToBeUploaded[r]) : cFileId[r][cToBeUploaded[r][k]] # 0
    /\ store' = commit(store, imageIdBatch(cToBeUploaded[r], cFileId[r]))
    /\ cpc' = [cpc EXCEPT ![r] = "committed"]
    /\ UNCHANGED <<cItems, cToBeUploaded, cFileId>>
    /\ UNCHANGED nonCacheVars

\* Run r fails in a stage before its cache write: nothing is written.
CacheRunFails(r) ==
    /\ cpc[r] = "uploading"
    /\ cpc' = [cpc EXCEPT ![r] = "failed"]
    /\ UNCHANGED <<cItems, cToBeUploaded, cFileId, store>>
    /\ UNCHANGED nonCacheVars

\* ======================================================================
\* Part 6: the first handler invocation with the concurrentDo batch of its
\* addStickers(), and the invocations that arrive after it (their stages
\* are those of Part 2).
\* ======================================================================

BatchRuns == 1..(1 + MaxFollowers)

\* delay(8000) of run r resolves (lines 60-61, 187-194): addStickers() calls
\* concurrentDo with the append tasks.
AddStickersCall(r) ==
    /\ pc[r] = "delay8000"
    /\ pc' = [pc EXCEPT ![r] = "addStickers"]
    /\ ConcurrentDoStep
    /\ UNCHANGED <<processingChat, user, admitted, releases>>
    /\ UNCHANGED <<rvars, pvars, cvars>>

\* A stage of run r resolves; the first run's delay(8000) is AddStickersCall.
StageOkBeforeBatch(r) ==
    /\ (r # 1 \/ pc[r] # "delay8000")
    /\ StageOk(r)

\* A stage of run r rejects; the first run's addStickers() is AddStickersRejected.
StageThrowBeforeBatch(r) ==
    /\ (r # 1 \/ pc[r] # "addStickers")
    /\ StageThrow(r)

\* The awaited batch of run r resolved, lines 61-64: clear the flag, issue
\* the final log.
AddStickersResolved(r) ==
    /\ pc[r] = "addStickers"
    /\ awaited(promise)
    /\ processingChat' = [processingChat EXCEPT ![user[r]] = FALSE]
    /\ releases' = [releases EXCEPT ![r] = @ + 1]
    /\ pc' = [pc EXCEPT ![r] = "log"]
    /\ UNCHANGED <<user, admitted>>
    /\ UNCHANGED nonGateVars

\* The awaited batch of run r is rejected, by its timeout or by a task that
\* exhausted its retries: control enters the catch block (lines 232-239).
AddStickersRejected(r) ==
    /\ pc[r] = "addStickers"
    /\ promise \in {"rejectedErr", "rejectedTimeout"}
    /\ Catch(r)
    /\ UNCHANGED <<user, admitted>>
    /\ UNCHANGED nonGateVars

\* ======================================================================
\* Specifications
\* ======================================================================

\* The wrapper variables while no wrapper is modelled.
RetryIdle ==
    /\ wrapper = "downloadSticker" /\ faults = 0 /\ rpc = "notCalled" /\ times = 0
    /\ error = "undefined" /\ invocations = 0 /\ delays = 0 /\ thrown = "none"

Init == BatchInit /\ GateInit /\ RetryIdle /\ PipeIdle /\ CacheIdle

Next ==
    \/ ConcurrentDo
    \/ Tick
    \/ TimeoutExpire
    \/ \E i \in 1..MaxLimit : TaskThen(i)
    \/ \E i \in 1..MaxLimit : TaskCatch(i)

Spec == Init /\ [][Next]_vars

\* setInterval keeps firing while it is not cleared, and every started task
\* settles; the timeout is not forced to fire.
LiveSpec ==
    /\ Init
    /\ [][Next]_vars
    /\ WF_vars(Tick)
    /\ \A i \in 1..MaxLimit : WF_vars(TaskThen(i))
    /\ \A i \in 1..MaxLimit : WF_vars(TaskCatch(i))

\* The batch variables are not used by the handler model and stay fixed.
GateFrozenBatch ==
    /\ called = FALSE /\ nTasks = 0 /\ limit = 1 /\ timeout = 0 /\ fails = {}
    /\ taskToBeExcuted = <<>> /\ queue = [i \in 1..1 |-> 0]
    /\ status = [t \in 1..0 |-> "unstarted"] /\ startedLog = <<>>
    /\ timer = "unset" /\ timeoutTimer = "unset" /\ promise = "pending"

GateNext ==
    \/ \E r \in Runs, u \in Users : Admit(r, u)
    \/ \E r \in Runs, u \in Users : Reject(r, u)
    \/ \E r \in Runs : StageOk(r)
    \/ \E r \in Runs : StageThrow(r)
    \/ \E r \in Runs : AddStickersOk(r)
    \/ \E r \in Runs : LogOk(r)
    \/ \E r \in Runs : LogThrow(r)
    \/ \E r \in Runs : CatchReplyOk(r)
    \/ \E r \in Runs : CatchReplyThrow(r)

GateStart == GateFrozenBatch /\ GateInit /\ RetryIdle /\ PipeIdle /\ CacheIdle

GateSpec == GateStart /\ [][GateNext]_vars

RetryStart == GateFrozenBatch /\ GateInit /\ RetryInit /\ PipeIdle /\ CacheIdle

RetryNext ==
    \/ WrapperCall
    \/ OpResolves
    \/ OpRejects
    \/ DelayDone

RetrySpec == RetryStart /\ [][RetryNext]_vars

PipeStart == GateFrozenBatch /\ GateInit /\ RetryIdle /\ PipeInit /\ CacheIdle

PipeNext ==
    \/ Document
    \/ ReplyOk
    \/ GetFileLinkOk
    \/ AxiosGetOk
    \/ RetrieveOk
    \/ DownloadLogOk
    \/ DownloadResolved
    \/ DownloadDoneLogOk
    \/ ProcessLogOk
    \/ \E i \in ItemIds : ProcessItem(i)
    \/ ProcessResolved
    \/ ProcessRejected
    \/ ProcessDoneLogOk
    \/ UploadLogOk
    \/ UploadResolved
    \/ UploadDoneLogOk
    \/ CommitOk
    \/ Delay1000Done
    \/ CreateOk
    \/ CreateLogOk
    \/ Delay8000Done
    \/ AddLogOk
    \/ AddResolved
    \/ FinalLogOk
    \/ BatchRejected
    \/ AwaitThrows
    \/ PipeCatchReplyDone
    \/ PipeTick
    \/ PipeTimeoutExpire
    \/ \E i \in 1..DownloadLimit : PipeTaskThen(i)
    \/ \E i \in 1..DownloadLimit : PipeTaskCatch(i)

PipeSpec == PipeStart /\ [][PipeNext]_vars

CacheStart ==
    /\ GateFrozenBatch /\ GateInit /\ RetryIdle /\ CacheIdle
    /\ ppc = "idle" /\ docKind = "valid" /\ nItems = 0
    /\ store \in [DocIds -> 0..MaxArtifacts]
    /\ existingImageIds = [i \in ItemIds |-> 0]
    /\ toBeUploaded = <<>>
    /\ image = [i \in ItemIds |-> "none"]
    /\ fileId = [i \in ItemIds |-> 0]
    /\ batchKind = "none"
    /\ dlStarted = {} /\ upStarted = {} /\ addStarted = {}
    /\ calls = [c \in CallNames |-> 0]
    /\ acks = {}
    /\ written = [i \in ItemIds |-> 0]
    /\ trace = <<>>
    /\ caught = "none" /\ failedAt = "none"

CacheNext ==
    \/ \E r \in CacheRuns, n \in 0..MaxItems : CacheRead(r, n)
    \/ \E r \in CacheRuns, i \in ItemIds, a \in ArtifactIds : CacheUpload(r, i, a)
    \/ \E r \in CacheRuns : CacheCommit(r)
    \/ \E r \in CacheRuns : CacheRunFails(r)

CacheSpec == CacheStart /\ [][CacheNext]_vars

\* The arguments of the concurrentDo call of addStickers() (lines 189-194):
\* one task per sticker after the first, limit 2, a timeout.
BatchStart ==
    /\ GateInit /\ RetryIdle /\ PipeIdle /\ CacheIdle
    /\ called = FALSE
    /\ nTasks \in 0..MaxTasks
    /\ limit = AddLimit
    /\ timeout = 1
    /\ fails \in SUBSET (1..nTasks)
    /\ taskToBeExcuted = <<>>
    /\ queue = [i \in 1..limit |-> 0]
    /\ status = [t \in 1..nTasks |-> "unstarted"]
    /\ startedLog = <<>>
    /\ timer = "unset"
    /\ timeoutTimer = "unset"
    /\ promise = "pending"

BatchNext ==
    \/ \E r \in BatchRuns, u \in Users : Admit(r, u)
    \/ \E r \in BatchRuns, u \in Users : Reject(r, u)
    \/ \E r \in BatchRuns : StageOkBeforeBatch(r)
    \/ \E r \in BatchRuns : StageThrowBeforeBatch(r)
    \/ \E r \in BatchRuns \ {1} : AddStickersOk(r)
    \/ AddStickersCall(1)
    \/ AddStickersResolved(1)
    \/ AddStickersRejected(1)
    \/ \E r \in BatchRuns : LogOk(r)
    \/ \E r \in BatchRuns : LogThrow(r)
    \/ \E r \in BatchRuns : CatchReplyOk(r)
    \/ \E r \in BatchRuns : CatchReplyThrow(r)
    \/ Tick
    \/ TimeoutExpire
    \/ \E i \in 1..AddLimit : TaskThen(i)
    \/ \E i \in 1..AddLimit : TaskCatch(i)

BatchSpec == BatchStart /\ [][BatchNext]_vars

\* ======================================================================
\* Properties of concurrentDo (Spec, LiveSpec)
\* ======================================================================

RunningTasks == {t \in Tasks : status[t] = "running"}

AnyFailed == \E t \in Tasks : status[t] = "failed"

StartCount(t) == Cardinality({k \in 1..Len(startedLog) : startedLog[k] = t})

Rejected == promise \in {"rejectedErr", "rejectedTimeout"}

\* C1: in every reachable state of a batch, settled or not, the number of
\* tasks that were started and have not yet completed is at most the limit.
C1_InFlightAtMostLimit == Cardinality(RunningTasks) <= limit

\* The cap is reached after the batch has settled and a freed slot was refilled.
C1_Witness ==
    /\ promise # "pending"
    /\ limit >= 2
    /\ Cardinality(RunningTasks) = limit
    /\ \E t \in Tasks : status[t] = "done"

\* C2: no task is ever started twice, and the batch is resolved only in a
\* state where each of its tasks was started exactly once and has completed
\* without error.
C2_SuccessOnlyWhenAllDoneOnce ==
    /\ \A t \in Tasks : StartCount(t) <= 1
    /\ promise = "resolved" =>
           \A t \in Tasks : status[t] = "done" /\ StartCount(t) = 1

\* A batch with more tasks than slots has resolved.
C2_Witness ==
    /\ promise = "resolved"
    /\ nTasks > limit
    /\ Len(startedLog) = nTasks

\* C3: as soon as a task has failed the batch is settled with failure, and
\* from then on no further task is started, also when running siblings
\* complete afterwards.
C3_FailureStopsAdmission ==
    /\ [](AnyFailed => Rejected)
    /\ [][AnyFailed => startedLog' = startedLog]_vars

\* A task has failed, a sibling's slot is free again, and a task is still waiting.
C3_Witness ==
    /\ AnyFailed
    /\ Len(taskToBeExcuted) > 0
    /\ \E i \in Slots : queue[i] = 0
    /\ \E t \in Tasks : status[t] = "done"

\* C4: once the timeout of a batch has expired, no task that was unstarted
\* at that moment is started.
C4_NoAdmissionAfterTimeout ==
    [][timeoutTimer = "fired" => startedLog' = startedLog]_vars

\* C5: in every state in which the batch has settled, neither the admission
\* interval nor the timeout timer is still armed.
C5_TimersReleasedWhenSettled ==
    promise # "pending" => (timer # "active" /\ timeoutTimer # "active")

\* C6: when the timeout fires while some task is unstarted or running and no
\* task has failed, the batch is rejected with the timeout error, and that
\* outcome is never replaced afterwards.
C6_TimeoutFailureIsFinal ==
    [][/\ (/\ timeoutTimer = "active"
           /\ timeoutTimer' = "fired"
           /\ ~AnyFailed
           /\ \E t \in Tasks : status[t] \in {"unstarted", "running"})
          => promise' = "rejectedTimeout"
       /\ promise = "rejectedTimeout" => promise' = "rejectedTimeout"]_vars

\* The batch timed out and every one of its tasks succeeded afterwards.
C6_Witness ==
    /\ promise = "rejectedTimeout"
    /\ nTasks > limit
    /\ \A t \in Tasks : status[t] = "done"

\* C7: a started batch none of whose tasks fails eventually resolves with
\* every task started, unless its timeout fires first.
C7_AllSucceedingEventuallyResolves ==
    (called /\ fails = {}) ~>
        \/ timeoutTimer = "fired"
        \/ promise = "resolved" /\ \A t \in Tasks : status[t] # "unstarted"

\* The largest batch has resolved through a single slot, without a timeout.
C7_Witness ==
    /\ promise = "resolved"
    /\ fails = {}
    /\ timeout = 0
    /\ nTasks = MaxTasks
    /\ limit = 1

\* C18: the tasks of a batch are started in the order of the input list:
\* for input positions i < j, task i is never started after task j.
C18_StartedInInputOrder ==
    \A k, l \in 1..Len(startedLog) :
        k < l => startedLog[k] < startedLog[l]

\* C21: a task is started, and an empty slot is taken, only by the initial
\* admission of the batch or by an admission tick; the completion of a task
\* leaves its slot empty and starts no task.
C21_AdmissionOnlyAtStartOrTick ==
    [][/\ (\/ startedLog' # startedLog
           \/ \E i \in Slots : queue[i] = 0 /\ queue'[i] # 0)
          => (ConcurrentDoStep \/ TickStep)
       /\ \A i \in Slots :
              (/\ queue[i] # 0
               /\ status[queue[i]] = "running"
               /\ status'[queue[i]] = "done")
              => (queue'[i] = 0 /\ startedLog' = startedLog)]_vars

\* Between two ticks of a pending batch: a task has completed, its slot is
\* empty, and a task is still waiting.
C21_Witness ==
    /\ promise = "pending"
    /\ timer = "active"
    /\ Len(taskToBeExcuted) > 0
    /\ \E i \in Slots : queue[i] = 0
    /\ \E t \in Tasks : status[t] = "done"

\* C23: a batch of no tasks is resolved as soon as concurrentDo is called, for
\* every limit and with or without a timeout, and it sets up neither the
\* interval nor the timeout timer.
C23_EmptyBatchResolvesWithoutTimers ==
    nTasks = 0 =>
        /\ called => promise = "resolved"
        /\ timer = "unset"
        /\ timeoutTimer = "unset"
        /\ startedLog = <<>>

\* concurrentDo was called with no tasks, the largest limit and a timeout.
C23_Witness ==
    /\ called
    /\ nTasks = 0
    /\ limit = MaxLimit
    /\ timeout # 0
    /\ promise = "resolved"

\* ======================================================================
\* Properties of the document handler (GateSpec)
\* ======================================================================

\* A run is active from its admission until it clears the flag.
Active(r) == admitted[r] /\ pc[r] \in StageSet

\* C8: at most one run per user is active at any instant.
C8_AtMostOneActiveRunPerUser ==
    \A r1, r2 \in Runs :
        (r1 # r2 /\ Active(r1) /\ Active(r2)) => user[r1] # user[r2]

\* C9: an attempt that is rejected because a run of the same user is active
\* leaves that user's flag set.
C9_RejectedAttemptLeavesFlagSet ==
    [][\A r \in Runs :
          (pc[r] = "idle" /\ pc'[r] # "idle" /\ ~admitted'[r])
              => processingChat'[user'[r]] = TRUE]_vars

\* C10: an admitted run clears its user's flag at most once, and exactly
\* once by the time it has left the stages.
C10_ReleasedExactlyOnce ==
    \A r \in Runs :
        admitted[r] =>
            /\ releases[r] <= 1
            /\ (pc[r] \notin StageSet => releases[r] = 1)

\* ======================================================================
\* Properties of the retrying wrappers (RetrySpec)
\* ======================================================================

RetryEnded == rpc \in {"returned", "threw"}

\* C11: a wrapper never invokes the remote operation more than A times, and
\* against an operation that fails k < A times and then succeeds it returns
\* after exactly k + 1 invocations.
C11_StopsAtFirstSuccess ==
    /\ invocations <= Attempts(wrapper)
    /\ rpc = "returned" => (faults < Attempts(wrapper) /\ invocations = faults + 1)
    /\ (RetryEnded /\ faults < Attempts(wrapper)) => rpc = "returned"

\* addSticker returned on its last allowed attempt.
C11_Witness ==
    /\ wrapper = "addSticker"
    /\ rpc = "returned"
    /\ faults = AddAttempts - 1
    /\ invocations = AddAttempts

\* C12: against an operation that fails on every attempt, a wrapper ends by
\* throwing the domain error after exactly A invocations.
C12_ExhaustionThrowsDomainError ==
    (RetryEnded /\ faults >= Attempts(wrapper)) =>
        /\ rpc = "threw"
        /\ invocations = Attempts(wrapper)
        /\ thrown = "BotError"

\* uploadSticker ended by exhausting its budget, the last fault kept for the log.
C12_Witness ==
    /\ rpc = "threw"
    /\ wrapper = "uploadSticker"
    /\ invocations = UploadAttempts
    /\ error = "raw"

\* C13: in uploadSticker and addSticker a delay is only ever followed by
\* another attempt: none before the first attempt, none after the last
\* failed attempt.
C13_DelayOnlyBetweenAttempts ==
    DelaysAfterFault(wrapper) =>
        /\ invocations = 0 => delays = 0
        /\ rpc = "awaitDelay" => times < Attempts(wrapper)
        /\ rpc = "threw" => delays = invocations - 1

\* ======================================================================
\* Properties of one run with its data (PipeSpec)
\* ======================================================================

IsPrefix(s, t) == Len(s) <= Len(t) /\ \A k \in 1..Len(s) : s[k] = t[k]

\* The stickers with no entry in the cache read at the start of the run.
Uncached == {i \in Items : existingImageIds[i] = 0}

\* C14: the stages complete in program order without repetition, and no
\* stage's calls are issued before the previous stage is over: no processing
\* and no upload before every download has completed, no cache write
\* before every upload has completed, no set creation before the cache write
\* is acknowledged, no append before the set creation is acknowledged.
C14_StagesStrictlyOrdered ==
    LET ToBeUploaded == {toBeUploaded[k] : k \in 1..Len(toBeUploaded)}
    IN  /\ IsPrefix(trace, StageOrder)
        /\ \A c \in CallNames : calls[c] <= 1
        /\ dlStarted # {} => "retrieveImageIds" \in acks
        /\ calls["processStickers"] > 0 =>
               \A i \in ToBeUploaded : image[i] # "none"
        /\ upStarted # {} => \A i \in ToBeUploaded : image[i] = "png"
        /\ calls["addImageIds"] > 0 => \A i \in ToBeUploaded : fileId[i] # 0
        /\ calls["createNewStickerSet"] > 0 => "addImageIds" \in acks
        /\ addStarted # {} => "createNewStickerSet" \in acks

\* A run over the largest set with several uploads has been through all stages.
C14_Witness ==
    /\ ppc = "returned"
    /\ trace = StageOrder
    /\ nItems = MaxItems
    /\ Len(toBeUploaded) >= 2
    /\ addStarted # {}

\* C15: in a run that completed, the stickers downloaded, processed and
\* uploaded are exactly those without a cache entry at the start, and the
\* one cache write holds exactly their ids, each mapped to the fileId the
\* run obtained.
C15_OnlyUncachedItemsUploadedAndPersisted ==
    ppc \in {"log", "returned"} =>
        /\ dlStarted = Uncached
        /\ {i \in ItemIds : image[i] = "png"} = Uncached
        /\ upStarted = Uncached
        /\ calls["addImageIds"] = 1
        /\ \A i \in ItemIds :
              /\ written[i] # 0 <=> i \in Uncached
              /\ i \in Uncached => written[i] = fileId[i]

\* Three stickers, the first two cached: only the third is uploaded and written.
C15_Witness ==
    /\ ppc = "returned"
    /\ nItems = 3
    /\ existingImageIds[1] # 0 /\ existingImageIds[2] # 0 /\ existingImageIds[3] = 0
    /\ upStarted = {3}
    /\ written[3] # 0

\* C17 as stated: for a document that fails validation no network call is
\* made at all: the fetch, cache and upload collaborators are never invoked.
C17_NoNetworkCallBeforeValidation ==
    docKind = "invalid" =>
        /\ calls["getFileLink"] = 0
        /\ calls["axiosGet"] = 0
        /\ calls["retrieveImageIds"] = 0
        /\ upStarted = {}

\* C17 amended: a document that fails validation is rejected after it has
\* been fetched and before any further call: no cache read, download,
\* processing, upload, cache write or sticker-set call is made, the run
\* never completes, and once the fetch has succeeded the error caught is the
\* bad-input BotError.
C17_InvalidDocumentStopsAfterFetch ==
    docKind = "invalid" =>
        /\ \A c \in CallNames \ {"getFileLink", "axiosGet"} : calls[c] = 0
        /\ dlStarted = {} /\ upStarted = {} /\ addStarted = {}
        /\ batchKind = "none"
        /\ trace = <<>>
        /\ ppc \notin {"log", "returned"}
        /\ (ppc \in {"catchReply", "caught"} /\ "axiosGet" \in acks) => caught = "BadInput"

\* An invalid document was fetched and rejected with the bad-input error.
C17_Witness ==
    /\ docKind = "invalid"
    /\ ppc = "caught"
    /\ caught = "BadInput"
    /\ calls["axiosGet"] = 1

\* C19: a notification (reply or log) that fails does not by itself send
\* the run into the catch block.
C19_NotificationFailureNonFatal ==
    failedAt \in NotifyPositions => ppc \notin {"catchReply", "caught"}

\* C20: for a set of exactly one sticker the append batch is empty: no
\* append task is ever started, the batch resolves in the call itself and
\* arms neither the interval nor the timeout.
C20_SingleItemSkipsAppend ==
    (docKind = "valid" /\ nItems = 1) =>
        /\ addStarted = {}
        /\ batchKind = "add" =>
              /\ nTasks = 0
              /\ startedLog = <<>>
              /\ timer = "unset" /\ timeoutTimer = "unset"
              /\ called => promise = "resolved"
        /\ ppc = "addBatch" => promise = "resolved"

\* A one-sticker set, uploaded in this run, completed with every call succeeding.
C20_Witness ==
    /\ nItems = 1
    /\ ppc = "returned"
    /\ batchKind = "add"
    /\ called
    /\ upStarted = {1}
    /\ caught = "none"

\* C22: a document whose fields are all present and well typed but whose
\* sticker list is empty ([].every(...) is true, utils.ts 28-29) does not pass
\* validation: once it has been fetched the run holds the bad-input error,
\* no stage completes, and the cache read, the cache write and the set
\* creation are never issued.
C22_ValidatedSetIsNonEmpty ==
    (docKind = "valid" /\ nItems = 0) =>
        /\ trace = <<>>
        /\ calls["retrieveImageIds"] = 0
        /\ calls["addImageIds"] = 0
        /\ calls["createNewStickerSet"] = 0
        /\ "axiosGet" \in acks => caught = "BadInput"

\* ======================================================================
\* Properties of a run with its append batch (BatchSpec)
\* ======================================================================

\* C24: once the first run has ended and cleared its user's flag, whether it
\* completed or failed (also by the timeout of its batch or by a task that
\* exhausted its retries), no task of its batch is started any more.
C24_NoOperationStartedAfterRunEnded ==
    [][(admitted[1] /\ releases[1] > 0) => startedLog' = startedLog]_vars

\* ======================================================================
\* Properties of the image-id cache (CacheSpec)
\* ======================================================================

\* C16: an entry of the persisted cache, once written, is never overwritten
\* with a different fileId.
C16_CacheEntryNeverOverwritten ==
    [][\A d \in DocIds : store[d] # 0 => store'[d] = store[d]]_vars

====
